---- MODULE Spec2Model ----
(***************************************************************************)
(* Model of the polkit .pkla -> rules.d converter (src/test.py).           *)
(*                                                                         *)
(* A Python str is a finite sequence of symbols.  The separators the code  *)
(* splits on (";", ":", "="), the glob character "*" and the quote "'" are *)
(* symbols of their own; a run of other characters (a type prefix, a name, *)
(* a result token) is one symbol.  An Optional value is the set of its values:      *)
(* {} is Python's None, {s} is the value s.  A call that may raise yields  *)
(* Ok(value) or Raise(exception type, message).                            *)
(***************************************************************************)
EXTENDS Integers, Sequences, FiniteSets, TLC

None == "None"

Some(x) == {x}

The(opt) == CHOOSE x \in opt : TRUE

Ok(v) == [ok |-> TRUE, val |-> v]

Raise(type, m) == [ok |-> FALSE, exc |-> type, msg |-> m]

PolkitConfConverterException == "PolkitConfConverterException"

ValueError == "ValueError"

---------------------------------------------------------------------------
(* str primitives used by the converter *)

Has(s, c) == \E i \in 1..Len(s) : s[i] = c

IndexOf(s, c) ==
    IF Has(s, c)
    THEN CHOOSE i \in 1..Len(s) : s[i] = c /\ \A j \in 1..(i - 1) : s[j] # c
    ELSE 0

\* s.split(sep): always at least one part, empty parts kept
RECURSIVE split(_, _)
split(s, sep) ==
    LET i == IndexOf(s, sep) IN
    IF i = 0 THEN <<s>>
    ELSE <<SubSeq(s, 1, i - 1)>> \o split(SubSeq(s, i + 1, Len(s)), sep)

\* s.split(sep, maxsplit=1)
split_maxsplit1(s, sep) ==
    LET i == IndexOf(s, sep) IN
    IF i = 0 THEN <<s>>
    ELSE <<SubSeq(s, 1, i - 1), SubSeq(s, i + 1, Len(s))>>

\* [i for i in s.split(";") if i]
split_nonempty(s) == SelectSeq(split(s, ";"), LAMBDA p : p # <<>>)

\* truth value of an Optional[str]: None and "" are falsy
Truthy(opt) == opt # {} /\ opt # {<<>>}

\* repr() of a str, as the f-string formatting of a list of str renders each
\* element: single quotes, unless the text holds a ' and no "
PyRepr(s) ==
    [quote |-> IF Has(s, "'") /\ ~Has(s, "\"") THEN "\"" ELSE "'", text |-> s]

\* the first raised result of a list comprehension, or the list of values
Collect(rs) ==
    IF \E i \in 1..Len(rs) : ~rs[i].ok
    THEN rs[CHOOSE i \in 1..Len(rs) : ~rs[i].ok /\ \A j \in 1..(i - 1) : rs[j].ok]
    ELSE Ok([i \in 1..Len(rs) |-> rs[i].val])

---------------------------------------------------------------------------
(* PolkitIdType, PolkitResult, PolkitIdentity *)

PolkitIdType == {"USER", "GROUP", "NETGROUP"}

PolkitResult ==
    {"YES", "NO", "AUTH_SELF", "AUTH_SELF_KEEP", "AUTH_ADMIN", "AUTH_ADMIN_KEEP"}

parse_identity_type(input) ==
    IF input = <<"unix-user">> THEN Ok("USER")
    ELSE IF input = <<"unix-group">> THEN Ok("GROUP")
    ELSE IF input = <<"unix-netgroup">> THEN Ok("NETGROUP")
    ELSE Raise(PolkitConfConverterException, "Unknown polkit identity type")

parse_polkit_result(polkit_result) ==
    IF polkit_result = {} THEN Ok(None)
    ELSE LET t == The(polkit_result) IN
         IF t = <<"yes">> THEN Ok("YES")
         ELSE IF t = <<"no">> THEN Ok("NO")
         ELSE IF t = <<"auth_self">> THEN Ok("AUTH_SELF")
         ELSE IF t = <<"auth_self_keep">> THEN Ok("AUTH_SELF_KEEP")
         ELSE IF t = <<"auth_admin">> THEN Ok("AUTH_ADMIN")
         ELSE IF t = <<"auth_admin_keep">> THEN Ok("AUTH_ADMIN_KEEP")
         ELSE Raise(PolkitConfConverterException, "Unknown polkit result value")

polkit_result_str(element) ==
    CASE element = "YES" -> "polkit.Result.YES"
      [] element = "NO" -> "polkit.Result.NO"
      [] element = "AUTH_SELF" -> "polkit.Result.AUTH_SELF"
      [] element = "AUTH_SELF_KEEP" -> "polkit.Result.AUTH_SELF_KEEP"
      [] element = "AUTH_ADMIN" -> "polkit.Result.AUTH_ADMIN"
      [] element = "AUTH_ADMIN_KEEP" -> "polkit.Result.AUTH_ADMIN_KEEP"
      [] OTHER -> None

\* PolkitIdentity.__str__
identity_str(id) ==
    CASE id.identity_type = "USER" -> <<"unix-user", ":">> \o id.identity
      [] id.identity_type = "GROUP" -> <<"unix-group", ":">> \o id.identity
      [] id.identity_type = "NETGROUP" -> <<"unix-netgroup", ":">> \o id.identity

\* the two-name unpacking of split(":", maxsplit=1) raises ValueError on a
\* token without a colon
parse_identity_str(input) ==
    LET parts == split_maxsplit1(input, ":") IN
    IF Len(parts) # 2
    THEN Raise(ValueError, "not enough values to unpack (expected 2, got 1)")
    ELSE LET t == parse_identity_type(parts[1]) IN
         IF t.ok THEN Ok([identity_type |-> t.val, identity |-> parts[2]])
         ELSE t

parse_identity_list(s) ==
    LET toks == split_nonempty(s) IN
    Collect([i \in 1..Len(toks) |-> parse_identity_str(toks[i])])

---------------------------------------------------------------------------
(* PolkitAdminConf *)

PolkitAdminConf(admin_ids) ==
    [cls |-> "PolkitAdminConf", admin_identity |-> admin_ids]

\* the f-string renders the Python list of str(i): each element by repr()
PolkitAdminConf_to_javascript(self) ==
    LET result_list ==
            [i \in 1..Len(self.admin_identity) |-> identity_str(self.admin_identity[i])]
    IN Ok([stmt |-> "polkit.addAdminRule",
           ret |-> [i \in 1..Len(result_list) |-> PyRepr(result_list[i])]])

---------------------------------------------------------------------------
(* PolkitPKLA *)

PolkitPKLA(identity, action, result_active, result_inactive, result_any, return_value) ==
    [cls |-> "PolkitPKLA", identity |-> identity, action |-> action,
     result_active |-> result_active, result_inactive |-> result_inactive,
     result_any |-> result_any, return_value |-> return_value]

\* return_value is None, the (empty) str read from the section, or a dict
RvNone == [kind |-> "None"]

RvStr(s) == [kind |-> "str", val |-> s]

RvDict(d) == [kind |-> "dict", val |-> d]

RvTruthy(rv) ==
    \/ rv.kind = "str" /\ rv.val # <<>>
    \/ rv.kind = "dict" /\ DOMAIN rv.val # {}

format_action_expression(action) ==
    IF Has(action, "*")
    THEN IF action[Len(action)] = "*"
         THEN Ok([fn |-> "action.startsWith", arg |-> SubSeq(action, 1, Len(action) - 1)])
         ELSE Raise(PolkitConfConverterException,
                    "Automatic conversion of globbing only at end of action string supported.")
    ELSE Ok([fn |-> "action.id ==", arg |-> action])

format_id_expression(id) ==
    CASE id.identity_type = "USER" -> [fn |-> "subject.user ==", arg |-> id.identity]
      [] id.identity_type = "GROUP" -> [fn |-> "subject.isInGroup", arg |-> id.identity]
      [] id.identity_type = "NETGROUP" -> [fn |-> "subject.isInNetGroup", arg |-> id.identity]

\* the " ||"-joined terms, parenthesised when there is more than one; the
\* empty list gives the empty (falsy) string
or_conditionals(conds) == [parens |-> Len(conds) > 1, terms |-> conds]

CondsTruthy(c) == c.terms # <<>>

merge_conds(action_conds, identity_conds) ==
    IF CondsTruthy(action_conds) /\ CondsTruthy(identity_conds)
    THEN <<action_conds, identity_conds>>
    ELSE IF CondsTruthy(action_conds) THEN <<action_conds>>
    ELSE IF CondsTruthy(identity_conds) THEN <<identity_conds>>
    ELSE <<[parens |-> FALSE, terms |-> <<[fn |-> "true", arg |-> <<>>]>>]>>

GuardActive == "subject.active && subject.local"

GuardInactive == "subject.inactive && subject.local"

Unguarded == ""

Block(guard, result) == [guard |-> guard, ret |-> polkit_result_str(result)]

\* the merge condition of the three result fields, with an equality dropped:
\* any result_any collapses
Collapses_AnyAlone(self) == self.result_any # None

\* the merge condition without its "only result_inactive, equal to
\* result_any" disjunct
Collapses_NoInactiveOnly(self) ==
    /\ self.result_any # None
    /\ \/ self.result_active = None /\ self.result_inactive = None
       \/ self.result_inactive = None /\ self.result_active = self.result_any
       \/ /\ self.result_active = self.result_any
          /\ self.result_inactive = self.result_any

\* "is" on enum members and None is equality of the values
Collapses(self) ==
    /\ self.result_any # None
    /\ \/ self.result_active = None /\ self.result_inactive = None
       \/ self.result_active = None /\ self.result_inactive = self.result_any
       \/ self.result_inactive = None /\ self.result_active = self.result_any
       \/ /\ self.result_active = self.result_any
          /\ self.result_inactive = self.result_any

\* the else branch with the fallthrough return joined first
separate_results_AnyFirst(self) ==
    (IF self.result_any # None
     THEN <<Block(Unguarded, self.result_any)>> ELSE <<>>)
    \o (IF self.result_active # None
        THEN <<Block(GuardActive, self.result_active)>> ELSE <<>>)
    \o (IF self.result_inactive # None
        THEN <<Block(GuardInactive, self.result_inactive)>> ELSE <<>>)

\* the else branch: "".join((result_active, result_inactive, result_any))
separate_results(self) ==
    (IF self.result_active # None
     THEN <<Block(GuardActive, self.result_active)>> ELSE <<>>)
    \o (IF self.result_inactive # None
        THEN <<Block(GuardInactive, self.result_inactive)>> ELSE <<>>)
    \o (IF self.result_any # None
        THEN <<Block(Unguarded, self.result_any)>> ELSE <<>>)

results_of(self) ==
    IF Collapses(self)
    THEN <<Block(Unguarded, self.result_any)>>
    ELSE separate_results(self)

PolkitPKLA_to_javascript(self) ==
    IF RvTruthy(self.return_value)
    THEN Raise(PolkitConfConverterException,
               "Automatic conversion of PKLA return values is not supported.")
    ELSE
    LET acts == Collect([i \in 1..Len(self.action) |->
                            format_action_expression(self.action[i])])
    IN
    IF ~acts.ok THEN acts
    ELSE
    LET action_conds == or_conditionals(acts.val)
        identity_conds ==
            or_conditionals([i \in 1..Len(self.identity) |->
                                format_id_expression(self.identity[i])])
    IN Ok([stmt |-> "polkit.addRule",
           merged_conds |-> merge_conds(action_conds, identity_conds),
           results |-> results_of(self)])

to_javascript(conf_obj) ==
    IF conf_obj.cls = "PolkitAdminConf"
    THEN PolkitAdminConf_to_javascript(conf_obj)
    ELSE PolkitPKLA_to_javascript(conf_obj)

---------------------------------------------------------------------------
(* _parse_ini_section *)

\* dict(pairs): a later pair of the same key wins
RECURSIVE dict(_)
dict(pairs) ==
    IF pairs = <<>> THEN <<>>
    ELSE LET n == Len(pairs) IN
         (pairs[n][1] :> pairs[n][2]) @@ dict(SubSeq(pairs, 1, n - 1))

\* dict([r.split("=", maxsplit=1) for r in return_value.split(";")]): an
\* entry without "=" is a one-element list, which dict() rejects
parse_return_value(return_value) ==
    LET entries == split(return_value, ";")
        pairs == [i \in 1..Len(entries) |-> split_maxsplit1(entries[i], "=")]
    IN
    IF \E i \in 1..Len(pairs) : Len(pairs[i]) # 2
    THEN Raise(ValueError,
               "dictionary update sequence element has length 1; 2 is required")
    ELSE Ok(RvDict(dict(pairs)))

parse_ini_section(section) ==
    IF Truthy(section.AdminIdentities)
    THEN LET admin_ids == parse_identity_list(The(section.AdminIdentities)) IN
         IF admin_ids.ok THEN Ok(PolkitAdminConf(admin_ids.val)) ELSE admin_ids
    ELSE
    LET identity == section.Identity
        action == section.Action
        result_active == parse_polkit_result(section.ResultActive)
        result_inactive == parse_polkit_result(section.ResultInactive)
        result_any == parse_polkit_result(section.ResultAny)
        return_value == section.ReturnValue
    IN
    IF ~result_active.ok THEN result_active
    ELSE IF ~result_inactive.ok THEN result_inactive
    ELSE IF ~result_any.ok THEN result_any
    ELSE IF \/ ~Truthy(identity)
            \/ ~Truthy(action)
            \/ ~(\/ result_active.val # None
                 \/ result_inactive.val # None
                 \/ result_any.val # None)
    THEN Raise(PolkitConfConverterException, "Invalid input configuration")
    ELSE
    LET ids == parse_identity_list(The(identity)) IN
    IF ~ids.ok THEN ids
    ELSE
    LET rv == IF Truthy(return_value) THEN parse_return_value(The(return_value))
              ELSE IF return_value = {} THEN Ok(RvNone)
              ELSE Ok(RvStr(The(return_value)))
    IN
    IF ~rv.ok THEN rv
    ELSE Ok(PolkitPKLA(ids.val, split_nonempty(The(action)),
                       result_active.val, result_inactive.val, result_any.val,
                       rv.val))

\* one iteration of the driver's loop body: parse, then translate
convert_section(section) ==
    LET conf == parse_ini_section(section) IN
    IF conf.ok THEN to_javascript(conf.val) ELSE conf

---------------------------------------------------------------------------
(* Inputs *)

MaxSections == 2

MaxPattern == 3

user_alice == <<"unix-user", ":", "alice">>

group_admins == <<"unix-group", ":", "admins">>

Section(adm, id, act, ra, ri, rany, rv) ==
    [AdminIdentities |-> adm, Identity |-> id, Action |-> act,
     ResultActive |-> ra, ResultInactive |-> ri, ResultAny |-> rany,
     ReturnValue |-> rv]

yes == Some(<<"yes">>)

no == Some(<<"no">>)

AdminSections ==
    { Section(Some(group_admins), {}, {}, {}, {}, {}, {}),
      Section(Some(group_admins \o <<";", "unix-user", ":", "o", "'", "b">>),
              Some(<<"alice">>), Some(<<"a", "*", "b">>), {}, {}, yes, Some(<<"x">>)),
      Section(Some(<<"admins">>), {}, {}, {}, {}, {}, {}),
      Section(Some(<<";">>), {}, {}, {}, {}, {}, {}) }

IdentityValues ==
    { Some(user_alice),
      Some(user_alice \o <<";", "unix-netgroup", ":", "n", ":", "x">>),
      Some(<<";">>),
      Some(<<"alice">>),
      Some(<<"bogus", ":", "alice">>),
      {} }

ActionValues ==
    { Some(<<"a", ";", "b", "*">>),
      Some(<<"a", "*", "b">>),
      Some(<<"a", "*", "b", "*">>),
      Some(<<";">>),
      {} }

ReturnValueValues == { Some(<<>>), Some(<<"x", "=", "y">>), Some(<<"x">>) }

RuleSections ==
    { Section({}, id, Some(<<"a">>), {}, {}, yes, {}) : id \in IdentityValues }
    \cup { Section(Some(<<>>), Some(user_alice), Some(<<"a">>), {}, {}, yes, {}) }
    \cup { Section({}, Some(user_alice), act, {}, {}, yes, {}) : act \in ActionValues }
    \cup { Section({}, Some(user_alice), Some(<<"a">>), r[1], r[2], r[3], {}) :
             r \in { <<yes, no, {}>>, <<yes, {}, yes>>, <<{}, {}, {}>>,
                     <<{}, {}, Some(<<"maybe">>)>> } }
    \cup { Section({}, Some(user_alice), Some(<<"a">>), {}, {}, yes, rv) :
             rv \in ReturnValueValues }

Sections == AdminSections \cup RuleSections

Documents == UNION { [1..n -> Sections] : n \in 0..MaxSections }

Patterns == UNION { [1..n -> {"a", "*"}] : n \in 1..MaxPattern }

OptResults == PolkitResult \cup {None}

identity_alice == [identity_type |-> "USER", identity |-> <<"alice">>]

identity_admins == [identity_type |-> "GROUP", identity |-> <<"admins">>]

ResultTriples ==
    { t \in OptResults \X OptResults \X OptResults :
        t[1] # None \/ t[2] # None \/ t[3] # None }

\* records _parse_ini_section can build: any identities and actions (none
\* included, see Identity=";"), results not all None
Records ==
    { PolkitPKLA(ids, acts, t[1], t[2], t[3], RvNone) :
        ids \in {<<identity_alice>>, <<identity_alice, identity_admins>>},
        acts \in {<<<<"a">>>>, <<<<"a", "*">>>>},
        t \in ResultTriples }
    \cup
    { PolkitPKLA(ids, acts, None, None, "YES", rv) :
        ids \in {<<>>, <<identity_alice>>, <<identity_alice, identity_admins>>},
        acts \in {<<>>} \cup { <<q>> : q \in Patterns }
                 \cup { <<<<"a">>, q>> : q \in Patterns },
        rv \in {RvNone, RvStr(<<>>), RvDict(<<"x">> :> <<"y">>)} }

---------------------------------------------------------------------------
(* The document driver: main() and the sys.exit(main()) around it *)

VARIABLES doc, debug, pc, idx, conf_obj, output, stderr, retval, exit_status,
          record, js

vars == <<doc, debug, pc, idx, conf_obj, output, stderr, retval, exit_status,
          record, js>>

Init ==
    /\ doc \in Documents
    /\ debug \in BOOLEAN
    /\ pc = "loop"
    /\ idx = 1
    /\ conf_obj = {}
    /\ output = <<>>
    /\ stderr = <<>>
    /\ retval = {}
    /\ exit_status = {}
    /\ record = {}
    /\ js = {}

\* sys.exit(arg): a bool is an int, so True exits with status 1, False with 0
sys_exit(arg) == IF arg = {} THEN 0 ELSE IF The(arg) THEN 1 ELSE 0

\* the object bound to conf_obj after the loop body ran on a section
bound_conf_obj(section, old) ==
    LET conf == parse_ini_section(section) IN
    IF conf.ok THEN Some(conf.val) ELSE old

\* an iteration that raises nothing: the translation is written
SectionWritten ==
    /\ pc = "loop" /\ idx <= Len(doc)
    /\ convert_section(doc[idx]).ok
    /\ conf_obj' = bound_conf_obj(doc[idx], conf_obj)
    /\ output' = Append(output, convert_section(doc[idx]).val)
    /\ idx' = idx + 1
    /\ UNCHANGED <<doc, debug, pc, stderr, retval, exit_status, record, js>>

\* the except clause, were it inside the loop: report and go on
SectionRejected_Continue ==
    /\ pc = "loop" /\ idx <= Len(doc)
    /\ ~convert_section(doc[idx]).ok
    /\ convert_section(doc[idx]).exc = PolkitConfConverterException
    /\ conf_obj' = bound_conf_obj(doc[idx], conf_obj)
    /\ stderr' = Append(stderr, IF debug THEN "traceback"
                                ELSE convert_section(doc[idx]).msg)
    /\ idx' = idx + 1
    /\ UNCHANGED <<doc, debug, pc, output, retval, exit_status, record, js>>

\* an iteration that raises PolkitConfConverterException: the except clause
\* reports and main returns False
SectionRejected ==
    /\ pc = "loop" /\ idx <= Len(doc)
    /\ ~convert_section(doc[idx]).ok
    /\ convert_section(doc[idx]).exc = PolkitConfConverterException
    /\ conf_obj' = bound_conf_obj(doc[idx], conf_obj)
    /\ stderr' = Append(stderr, IF debug THEN "traceback"
                                ELSE convert_section(doc[idx]).msg)
    /\ retval' = Some(FALSE)
    /\ pc' = "returned"
    /\ UNCHANGED <<doc, debug, idx, output, exit_status, record, js>>

\* an iteration that raises anything else: no handler, the interpreter
\* prints the traceback and exits with status 1
SectionCrashed ==
    /\ pc = "loop" /\ idx <= Len(doc)
    /\ ~convert_section(doc[idx]).ok
    /\ convert_section(doc[idx]).exc # PolkitConfConverterException
    /\ conf_obj' = bound_conf_obj(doc[idx], conf_obj)
    /\ stderr' = Append(stderr, "traceback")
    /\ exit_status' = Some(1)
    /\ pc' = "crashed"
    /\ UNCHANGED <<doc, debug, idx, output, retval, record, js>>

\* the loop is exhausted: main returns True
AllSectionsDone ==
    /\ pc = "loop" /\ idx > Len(doc)
    /\ retval' = Some(TRUE)
    /\ pc' = "returned"
    /\ UNCHANGED <<doc, debug, idx, conf_obj, output, stderr, exit_status, record, js>>

\* sys.exit(main())
Exit ==
    /\ pc = "returned"
    /\ exit_status' = Some(sys_exit(retval))
    /\ pc' = "exited"
    /\ UNCHANGED <<doc, debug, idx, conf_obj, output, stderr, retval, record, js>>

Next ==
    \/ SectionWritten
    \/ SectionRejected
    \/ SectionCrashed
    \/ AllSectionsDone
    \/ Exit

Spec == Init /\ [][Next]_vars

---------------------------------------------------------------------------
(* PolkitPKLA.to_javascript applied to each record the parser can build *)

InitRule ==
    /\ doc = <<>>
    /\ debug = FALSE
    /\ pc = "translate"
    /\ idx = 1
    /\ conf_obj = {}
    /\ output = <<>>
    /\ stderr = <<>>
    /\ retval = {}
    /\ exit_status = {}
    /\ record \in { Some(r) : r \in Records }
    /\ js = {}

Translate ==
    /\ pc = "translate"
    /\ js' = Some(PolkitPKLA_to_javascript(The(record)))
    /\ pc' = "translated"
    /\ UNCHANGED <<doc, debug, idx, conf_obj, output, stderr, retval, exit_status,
                   record>>

NextRule == Translate

SpecRule == InitRule /\ [][NextRule]_vars

---------------------------------------------------------------------------
(* Properties of the result-branch consolidation (under SpecRule) *)

\* the target constant documented for each Result
ResultConstant ==
    [r \in PolkitResult |->
        CASE r = "YES" -> "polkit.Result.YES"
          [] r = "NO" -> "polkit.Result.NO"
          [] r = "AUTH_SELF" -> "polkit.Result.AUTH_SELF"
          [] r = "AUTH_SELF_KEEP" -> "polkit.Result.AUTH_SELF_KEEP"
          [] r = "AUTH_ADMIN" -> "polkit.Result.AUTH_ADMIN"
          [] r = "AUTH_ADMIN_KEEP" -> "polkit.Result.AUTH_ADMIN_KEEP"]

\* resultAny is present and each of resultActive, resultInactive is absent
\* or equal to it
AllAgree(r) ==
    /\ r.result_any # None
    /\ r.result_active \in {None, r.result_any}
    /\ r.result_inactive \in {None, r.result_any}

SingleReturn(r, body) ==
    /\ r.result_any # None
    /\ body = <<[guard |-> Unguarded, ret |-> ResultConstant[r.result_any]]>>

Translated == record # {} /\ js # {} /\ The(js).ok

\* C1: a translated rule record's body is exactly one unconditional return of
\* resultAny's constant, with no guarded block, if and only if resultAny is
\* present and each of resultActive and resultInactive is absent or equal to
\* resultAny.
C1_CollapseIff ==
    Translated =>
        (SingleReturn(The(record), The(js).val.results) <=> AllAgree(The(record)))

\* the boundary case: only resultInactive present besides resultAny, equal to it
C1_Witness ==
    /\ Translated
    /\ The(record).result_active = None
    /\ The(record).result_inactive = "NO"
    /\ The(record).result_any = "NO"
    /\ The(js).val.results = <<[guard |-> Unguarded, ret |-> "polkit.Result.NO"]>>

Positions(body, guard) == { i \in 1..Len(body) : body[i].guard = guard }

FieldBlock(body, guard, field) ==
    IF field = None THEN Positions(body, guard) = {}
    ELSE /\ Cardinality(Positions(body, guard)) = 1
         /\ \A i \in Positions(body, guard) : body[i].ret = ResultConstant[field]

\* C2: when the result fields do not collapse, the body holds a block guarded
\* on active-and-local iff resultActive is present, a block guarded on
\* inactive-and-local iff resultInactive is present, an unconditional return
\* iff resultAny is present, each returning its own field's constant, in that
\* order and nothing else.
C2_OrderedBlocks ==
    (Translated /\ ~AllAgree(The(record))) =>
        LET r == The(record)
            body == The(js).val.results
        IN /\ FieldBlock(body, GuardActive, r.result_active)
           /\ FieldBlock(body, GuardInactive, r.result_inactive)
           /\ FieldBlock(body, Unguarded, r.result_any)
           /\ \A i \in 1..Len(body) :
                body[i].guard \in {GuardActive, GuardInactive, Unguarded}
           /\ \A i \in Positions(body, GuardActive) :
                \A k \in Positions(body, GuardInactive) \cup Positions(body, Unguarded) :
                    i < k
           /\ \A i \in Positions(body, GuardInactive) :
                \A k \in Positions(body, Unguarded) : i < k

C2_Witness ==
    /\ Translated
    /\ The(record).result_active = "YES"
    /\ The(record).result_inactive = "NO"
    /\ The(record).result_any = "AUTH_ADMIN"
    /\ Len(The(js).val.results) = 3
    /\ The(js).val.results[3].guard = Unguarded

\* the states of a subject the guards read
Subjects ==
    { s \in [active : BOOLEAN, inactive : BOOLEAN, local : BOOLEAN] :
        ~(s.active /\ s.inactive) }

GuardHolds(guard, s) ==
    CASE guard = Unguarded -> TRUE
      [] guard = GuardActive -> s.active /\ s.local
      [] guard = GuardInactive -> s.inactive /\ s.local

\* the target engine: top to bottom, the first return wins
Decision(body, s) ==
    IF \E i \in 1..Len(body) : GuardHolds(body[i].guard, s)
    THEN body[CHOOSE i \in 1..Len(body) :
                /\ GuardHolds(body[i].guard, s)
                /\ \A k \in 1..(i - 1) : ~GuardHolds(body[k].guard, s)].ret
    ELSE "no return"

\* the decision of the three fields taken one by one
FieldDecision(r, s) ==
    IF r.result_active # None /\ s.active /\ s.local
    THEN ResultConstant[r.result_active]
    ELSE IF r.result_inactive # None /\ s.inactive /\ s.local
    THEN ResultConstant[r.result_inactive]
    ELSE IF r.result_any # None THEN ResultConstant[r.result_any]
    ELSE "no return"

\* C10: for every subject state, the emitted body decides what the
\* un-collapsed sequence (active guard, inactive guard, unconditional
\* resultAny) decides: the same constant, or no return.
C10_CollapsePreservesDecision ==
    Translated =>
        \A s \in Subjects :
            Decision(The(js).val.results, s) = FieldDecision(The(record), s)

C10_Witness ==
    /\ Translated
    /\ The(record).result_active = "AUTH_SELF"
    /\ The(record).result_inactive = "AUTH_SELF"
    /\ The(record).result_any = "AUTH_SELF"
    /\ Len(The(js).val.results) = 1

StarPositions(pattern) == { i \in 1..Len(pattern) : pattern[i] = "*" }

\* C8: an action pattern without "*" gives an exact-match predicate on the
\* pattern, one whose only "*" is last gives a prefix-match predicate on the
\* text before it, and a record with a pattern holding a "*" anywhere but
\* last fails with the glob error.
C8_GlobHandling ==
    (record # {} /\ js # {} /\ ~RvTruthy(The(record).return_value)
                 /\ The(record).action # <<>>) =>
        LET acts == The(record).action
            j == The(js)
        IN IF \E k \in 1..Len(acts) : StarPositions(acts[k]) \ {Len(acts[k])} # {}
           THEN /\ ~j.ok
                /\ j.exc = PolkitConfConverterException
                /\ j.msg = "Automatic conversion of globbing only at end of action string supported."
           ELSE /\ j.ok
                /\ Len(j.val.merged_conds[1].terms) = Len(acts)
                /\ \A k \in 1..Len(acts) :
                     j.val.merged_conds[1].terms[k] =
                        IF StarPositions(acts[k]) = {}
                        THEN [fn |-> "action.id ==", arg |-> acts[k]]
                        ELSE [fn |-> "action.startsWith",
                              arg |-> SubSeq(acts[k], 1, Len(acts[k]) - 1)]

---------------------------------------------------------------------------
(* Properties of the document driver (under Spec) *)

Finished == pc \in {"returned", "exited", "crashed"}

\* the index of the first section whose parsing or translation fails, or
\* Len(d) + 1
FirstFailure(d) ==
    IF \E k \in 1..Len(d) : ~convert_section(d[k]).ok
    THEN CHOOSE k \in 1..Len(d) :
            /\ ~convert_section(d[k]).ok
            /\ \A i \in 1..(k - 1) : convert_section(d[i]).ok
    ELSE Len(d) + 1

\* the loop body has run on section i
Processed(i) == i < idx \/ (i = idx /\ Finished)

\* C3: the output stream always holds the translations, in input order, of
\* the first sections of the document, never reaching the first failing
\* section, and once the driver has finished it holds exactly those of the
\* sections before the first failing one.
C3_OutputIsPrefix ==
    /\ Len(output) < FirstFailure(doc)
    /\ \A i \in 1..Len(output) : output[i] = convert_section(doc[i]).val
    /\ Finished => Len(output) = FirstFailure(doc) - 1

C3_Witness ==
    /\ Finished
    /\ Len(doc) = 2
    /\ FirstFailure(doc) = 2
    /\ output = <<convert_section(doc[1]).val>>

\* C4: the process exits with status 0 when every section is parsed and
\* translated, and with status 1 when one fails.
C4_ExitStatus ==
    exit_status # {} =>
        exit_status = Some(IF FirstFailure(doc) > Len(doc) THEN 0 ELSE 1)

\* C5: no failure other than the reportable PolkitConfConverterException,
\* which the driver catches, leaves the driver.
C5_OnlyReportedFailures == pc # "crashed"

\* C6: every rule record bound by the driver has at least one identity, at
\* least one action and a result.
C6_RecordNonEmpty ==
    \A c \in conf_obj :
        c.cls = "PolkitPKLA" =>
            /\ Len(c.identity) >= 1
            /\ Len(c.action) >= 1
            /\ \/ c.result_active # None
               \/ c.result_inactive # None
               \/ c.result_any # None

\* C7: a processed rule section that holds the ReturnValue key and is valid
\* without it is rejected with the unsupported-return-value message, and no
\* statement is written for it.
C7_ReturnValueRejected ==
    \A i \in 1..Len(doc) :
        (/\ Processed(i)
         /\ ~Truthy(doc[i].AdminIdentities)
         /\ doc[i].ReturnValue # {}
         /\ convert_section([doc[i] EXCEPT !.ReturnValue = {}]).ok) =>
            /\ Len(output) < i
            /\ pc # "crashed"
            /\ debug \/ stderr =
                <<"Automatic conversion of PKLA return values is not supported.">>

\* every identity token of the value has a colon and a recognised type
WellFormedIdentities(s) ==
    \A k \in 1..Len(split_nonempty(s)) : parse_identity_str(split_nonempty(s)[k]).ok

\* C9: a processed section with a non-empty AdminIdentities value of
\* well-formed tokens has one addAdminRule statement in the output, returning
\* the list of its tokens, in input order, each as a double-quoted string.
C9_AdminRuleList ==
    \A i \in 1..Len(doc) :
        (/\ Processed(i)
         /\ Truthy(doc[i].AdminIdentities)
         /\ WellFormedIdentities(The(doc[i].AdminIdentities))) =>
            LET toks == split_nonempty(The(doc[i].AdminIdentities)) IN
            /\ i <= Len(output)
            /\ output[i] =
                [stmt |-> "polkit.addAdminRule",
                 ret |-> [k \in 1..Len(toks) |-> [quote |-> "\"", text |-> toks[k]]]]

====
